---- MODULE Spec2Model ----
(***************************************************************************)
(* Model of the bookmark server's tag normaliser / tag processor           *)
(* (utils/tagNormalizer) and of its AI analysis dispatcher (services/ai,   *)
(* services/openai, services/claude).                                      *)
(*                                                                         *)
(* Strings are sequences of one-character strings, so that trimming,       *)
(* lower-casing, prefix and suffix tests are computed, not assumed.        *)
(***************************************************************************)
EXTENDS Integers, Sequences, FiniteSets, TLC

VARIABLES
    pc,             \* position of the scenario being run
    tag,            \* normalizeTag: the raw tag
    normalized,     \* normalizeTag(tag)
    renormalized,   \* normalizeTag(normalizeTag(tag))
    newTags,        \* processTags: the proposed tags
    existingTags,   \* processTags: the user's vocabulary
    found,          \* outcome of findSimilarTag(newTags[1], existingTags)
    processed,      \* outcome of processTags(newTags, existingTags)
    reprocessed,    \* outcome of processTags(T, T) for T the tags of processed
    user,           \* analyzeContent: the user's provider selection and keys
    url,            \* analyzeContent: the bookmark's URL
    variant,        \* the provider service the dispatcher delegated to
    summaryTask,    \* the promise of generateSummary(...).catch(...)
    tagsTask,       \* the promise of generateTags(...).catch(...)
    categoryTask,   \* the promise of determineCategory(...).catch(...)
    requests,       \* requests sent to the provider, per primitive
    tagsReply,      \* the provider's answer to the tag request
    completed,      \* the sub-operations in the order they completed
    result,         \* what ai.analyzeContent returned
    bookmarks,      \* the Bookmark collection, in order of creation
    response,       \* status of the route's response
    content,        \* the fetched page content handed to a provider service
    submitted,      \* the content a sub-operation sent to the provider
    answer,         \* the provider's answer to that sub-operation
    folders,        \* the Folder collection, in order of creation
    inflight        \* the requests suspended at an await

tagVars == <<tag, normalized, renormalized>>
procVars == <<newTags, existingTags, found, processed, reprocessed>>
taskVars == <<summaryTask, tagsTask, categoryTask>>
aiVars == <<user, url, variant, taskVars, requests, tagsReply, completed, result>>
storeVars == <<bookmarks, response>>
promptVars == <<content, submitted, answer>>
folderVars == <<folders, inflight>>
vars == <<pc, tagVars, procVars, aiVars, storeVars, promptVars, folderVars>>

----------------------------------------------------------------------------
(* Bounds *)

\* longest raw tag given to normalizeTag
MaxTagLen == 5
\* longest tag in the processTags scenarios
MaxVocabLen == 4
\* most tags in newTags
MaxNew == 2
\* most tags in existingTags
MaxExisting == 2
\* most tags in newTags and existingTags together
MaxTags == 3
\* longest candidate and longest existing tag given to findSimilarTag
MaxMatchLen == 4
\* most existing tags given to findSimilarTag
MaxMatchExisting == 2
\* most characters in the existing tags given to findSimilarTag, all together
MaxMatchChars == 6
\* most parts of a URL
MaxUrlParts == 2
\* most tags in a provider's tag reply
MaxReplyTags == 2
\* most blocks of a fetched content
MaxContentBlocks == 5

\* characters of the raw tags given to normalizeTag
Chars == {"a", "n", "t", "h", "e", "s", "i", " ", "S"}
\* characters of the tags in the processTags scenarios
VocabChars == {"a", "s"}

Strings(chars, n) == UNION {[1..k -> chars] : k \in 0..n}

----------------------------------------------------------------------------
(* JavaScript string primitives *)

LowerChar(c) ==
    CASE c = "S" -> "s"
      [] c = "A" -> "a"
      [] c = "I" -> "i"
      [] c = "YouTube.com" -> "youtube.com"
      [] c = "Video" -> "video"
      [] OTHER -> c

\* String.prototype.toLowerCase
ToLowerCase(s) == [i \in 1..Len(s) |-> LowerChar(s[i])]

RECURSIVE TrimStart(_)
TrimStart(s) ==
    IF s # <<>> /\ Head(s) = " " THEN TrimStart(Tail(s)) ELSE s

RECURSIVE TrimEnd(_)
TrimEnd(s) ==
    IF s # <<>> /\ s[Len(s)] = " " THEN TrimEnd(SubSeq(s, 1, Len(s) - 1)) ELSE s

\* String.prototype.trim
Trim(s) == TrimEnd(TrimStart(s))

\* String.prototype.startsWith
StartsWith(s, p) == Len(s) >= Len(p) /\ SubSeq(s, 1, Len(p)) = p

\* String.prototype.endsWith
EndsWith(s, p) == Len(s) >= Len(p) /\ SubSeq(s, Len(s) - Len(p) + 1, Len(s)) = p

\* s.slice(0, -n) for 0 < n
SliceOff(s, n) == SubSeq(s, 1, Len(s) - n)

----------------------------------------------------------------------------
(* utils/tagNormalizer: normalizeTag *)

\* Object.entries(COMMON_VARIATIONS.plurals), in insertion order
PLURALS ==
    << [suffix |-> <<"s">>,           replacement |-> <<>>],
       [suffix |-> <<"e", "s">>,      replacement |-> <<>>],
       [suffix |-> <<"i", "e", "s">>, replacement |-> <<"y">>] >>

\* Object.entries(COMMON_VARIATIONS.prefixes), in insertion order
PREFIXES ==
    << [prefix |-> <<"t", "h", "e", " ">>, replacement |-> <<>>],
       [prefix |-> <<"a", " ">>,           replacement |-> <<>>],
       [prefix |-> <<"a", "n", " ">>,      replacement |-> <<>>] >>

PRESERVED_TERMS ==
    { <<"a", "w", "s">>,
      <<"a", "p", "i", "s">>,
      <<"d", "n", "s">>,
      <<"i", "o", "s">>,
      <<"c", "s", "s">>,
      <<"s", "a", "s", "s">>,
      <<"l", "e", "s", "s">>,
      <<"n", "e", "w", "s">>,
      <<"d", "e", "v", "o", "p", "s">>,
      <<"k", "u", "b", "e", "r", "n", "e", "t", "e", "s">>,
      <<"t", "e", "n", "s", "o", "r", "f", "l", "o", "w">> }

\* the loop "Remove prefixes", from entry i on; replace() rewrites the first
\* occurrence, which is the prefix itself since startsWith holds
RECURSIVE RemovePrefixes(_, _)
RemovePrefixes(s, i) ==
    IF i > Len(PREFIXES) THEN s
    ELSE LET e == PREFIXES[i]
         IN  IF StartsWith(s, e.prefix)
             THEN RemovePrefixes(e.replacement \o SubSeq(s, Len(e.prefix) + 1, Len(s)), i + 1)
             ELSE RemovePrefixes(s, i + 1)

\* the loop "Handle plurals", from entry i on
RECURSIVE HandlePlurals(_, _)
HandlePlurals(s, i) ==
    IF i > Len(PLURALS) THEN s
    ELSE LET e == PLURALS[i]
             singular == SliceOff(s, Len(e.suffix)) \o e.replacement
         IN  IF EndsWith(s, e.suffix) /\ Len(s) > Len(e.suffix) /\ Len(singular) >= 2
             THEN HandlePlurals(singular, i + 1)
             ELSE HandlePlurals(s, i + 1)

\* as normalizeTag, without the preserved terms
normalizeTag_NothingPreserved(t) ==
    IF t = <<>> THEN <<>>
    ELSE HandlePlurals(RemovePrefixes(Trim(ToLowerCase(t)), 1), 1)

normalizeTag(t) ==
    IF t = <<>> THEN <<>>
    ELSE LET lowered == Trim(ToLowerCase(t))
         IN  IF lowered \in PRESERVED_TERMS THEN lowered
             ELSE HandlePlurals(RemovePrefixes(lowered, 1), 1)

----------------------------------------------------------------------------
(* string-similarity, as findSimilarTag uses it.  A rating is the fraction     *)
(* num/den with den > 0, so that ratings are compared exactly.                *)

\* first.replace(/\s+/g, '')
RemoveWhitespace(s) == SelectSeq(s, LAMBDA c : c # " ")

\* the two-character substrings of s, in order
Bigrams(s) == [i \in 1..(Len(s) - 1) |-> <<s[i], s[i + 1]>>]

\* how often bigram b occurs in the sequence of bigrams bs
Occurrences(bs, b) == Cardinality({i \in 1..Len(bs) : bs[i] = b})

\* the second loop of compareTwoStrings: walks the bigrams of the second string
\* from index i on, each one consuming one remaining occurrence in the first
RECURSIVE IntersectionSize(_, _, _)
IntersectionSize(firstBigrams, secondBigrams, i) ==
    IF i > Len(secondBigrams) THEN 0
    ELSE LET b == secondBigrams[i]
             usedBefore == Occurrences(SubSeq(secondBigrams, 1, i - 1), b)
         IN  (IF Occurrences(firstBigrams, b) - usedBefore > 0 THEN 1 ELSE 0)
             + IntersectionSize(firstBigrams, secondBigrams, i + 1)

compareTwoStrings(a, b) ==
    LET first == RemoveWhitespace(a)
        second == RemoveWhitespace(b)
    IN  IF first = second THEN [num |-> 1, den |-> 1]
        ELSE IF Len(first) < 2 \/ Len(second) < 2 THEN [num |-> 0, den |-> 1]
        ELSE [num |-> 2 * IntersectionSize(Bigrams(first), Bigrams(second), 1),
              den |-> Len(first) + Len(second) - 2]

\* r1 > r2
RatingGreater(r1, r2) == r1.num * r2.den > r2.num * r1.den

\* the loop of findBestMatch: the index of the best rating among targets[1..i],
\* the first one winning ties
RECURSIVE BestMatchIndex(_, _, _)
BestMatchIndex(mainString, targetStrings, i) ==
    IF i = 1 THEN 1
    ELSE LET best == BestMatchIndex(mainString, targetStrings, i - 1)
         IN  IF RatingGreater(compareTwoStrings(mainString, targetStrings[i]),
                              compareTwoStrings(mainString, targetStrings[best]))
             THEN i ELSE best

\* findBestMatch rejects an empty list of targets ("Bad arguments")
findBestMatch(mainString, targetStrings) ==
    IF targetStrings = <<>>
    THEN [threw |-> TRUE, target |-> <<>>, rating |-> [num |-> 0, den |-> 1]]
    ELSE LET best == BestMatchIndex(mainString, targetStrings, Len(targetStrings))
         IN  [threw |-> FALSE,
              target |-> targetStrings[best],
              rating |-> compareTwoStrings(mainString, targetStrings[best])]

----------------------------------------------------------------------------
(* utils/tagNormalizer: findSimilarTag, processTags *)

\* the default similarityThreshold, 0.85, in hundredths
SimilarityThresholdPct == 85

\* rating >= similarityThreshold
AtLeastThreshold(r) == r.num * 100 >= SimilarityThresholdPct * r.den

\* existingTags.find(tag => normalizeTag(tag) === normalizedNew): the index of
\* the first such tag, 0 when there is none
ExactMatchIndex(normalizedNew, tags) ==
    LET hits == {i \in 1..Len(tags) : normalizeTag(tags[i]) = normalizedNew}
    IN  IF hits = {} THEN 0 ELSE CHOOSE i \in hits : \A j \in hits : i <= j

NoMatch == [threw |-> FALSE, hit |-> FALSE, tag |-> <<>>]

\* as findSimilarTag, without the exact step
findSimilarTag_FuzzyOnly(newTag, tags) ==
    LET normalizedNew == normalizeTag(newTag)
        matches == findBestMatch(normalizedNew, tags)
    IN  IF matches.threw
        THEN [threw |-> TRUE, hit |-> FALSE, tag |-> <<>>]
        ELSE IF AtLeastThreshold(matches.rating)
        THEN [threw |-> FALSE, hit |-> TRUE, tag |-> matches.target]
        ELSE NoMatch

\* as findSimilarTag, the best match returned whatever its rating
findSimilarTag_NoThreshold(newTag, tags) ==
    LET normalizedNew == normalizeTag(newTag)
        exact == ExactMatchIndex(normalizedNew, tags)
        matches == findBestMatch(normalizedNew, tags)
    IN  IF exact # 0 /\ tags[exact] # <<>>
        THEN [threw |-> FALSE, hit |-> TRUE, tag |-> tags[exact]]
        ELSE IF matches.threw
        THEN [threw |-> TRUE, hit |-> FALSE, tag |-> <<>>]
        ELSE [threw |-> FALSE, hit |-> TRUE, tag |-> matches.target]

\* hit is FALSE for the result null; threw is TRUE when the call raises
findSimilarTag(newTag, tags) ==
    LET normalizedNew == normalizeTag(newTag)
        exact == ExactMatchIndex(normalizedNew, tags)
        matches == findBestMatch(normalizedNew, tags)
    IN  IF exact # 0 /\ tags[exact] # <<>>
        THEN [threw |-> FALSE, hit |-> TRUE, tag |-> tags[exact]]
        ELSE IF matches.threw
        THEN [threw |-> TRUE, hit |-> FALSE, tag |-> <<>>]
        ELSE IF AtLeastThreshold(matches.rating)
        THEN [threw |-> FALSE, hit |-> TRUE, tag |-> matches.target]
        ELSE NoMatch

\* Set.prototype.add on the insertion-ordered set
SetAdd(set, x) ==
    IF \E i \in 1..Len(set) : set[i] = x THEN set ELSE Append(set, x)

NoTags == [threw |-> FALSE, tags |-> <<>>]

\* the loop of processTags without its "Skip empty tags" line
RECURSIVE ProcessFrom_NoSkip(_, _, _, _)
ProcessFrom_NoSkip(tags, existing, i, processedTags) ==
    IF i > Len(tags) THEN [threw |-> FALSE, tags |-> processedTags]
    ELSE LET normalizedTag == normalizeTag(tags[i])
             similarTag == findSimilarTag(normalizedTag, existing)
         IN  IF similarTag.threw
             THEN [threw |-> TRUE, tags |-> <<>>]
             ELSE IF similarTag.hit /\ similarTag.tag # <<>>
             THEN ProcessFrom_NoSkip(tags, existing, i + 1, SetAdd(processedTags, similarTag.tag))
             ELSE ProcessFrom_NoSkip(tags, existing, i + 1, SetAdd(processedTags, normalizedTag))

\* the loop of processTags from newTags[i] on, processedTags being the set so
\* far; an exception of findSimilarTag leaves the function
RECURSIVE ProcessFrom(_, _, _, _)
ProcessFrom(tags, existing, i, processedTags) ==
    IF i > Len(tags) THEN [threw |-> FALSE, tags |-> processedTags]
    ELSE LET normalizedTag == normalizeTag(tags[i])
             similarTag == findSimilarTag(normalizedTag, existing)
         IN  IF normalizedTag = <<>>
             THEN ProcessFrom(tags, existing, i + 1, processedTags)
             ELSE IF similarTag.threw
             THEN [threw |-> TRUE, tags |-> <<>>]
             ELSE IF similarTag.hit /\ similarTag.tag # <<>>
             THEN ProcessFrom(tags, existing, i + 1, SetAdd(processedTags, similarTag.tag))
             ELSE ProcessFrom(tags, existing, i + 1, SetAdd(processedTags, normalizedTag))

processTags(tags, existing) == ProcessFrom(tags, existing, 1, <<>>)

----------------------------------------------------------------------------
(* services/openai, services/claude: the three generation sub-operations.     *)
(* Summaries, categories and URLs are sequences whose elements are words or   *)
(* single spaces; tags are sequences of characters.                           *)

SUMMARY_FAILED == <<"Summary generation failed. Please try again later.">>
NO_SUMMARY == <<"No summary available.">>
ARTICLE == <<"Article">>
VIDEO == <<"Video">>
RESEARCH == <<"Research">>
CATEGORIES == {ARTICLE, VIDEO, RESEARCH}

\* the reasonable length limit of a generated tag
MaxTagChars == 50

\* the generic terms, spelled out
OTHER_ == <<"o", "t", "h", "e", "r">>
MISCELLANEOUS_ == <<"m", "i", "s", "c", "e", "l", "l", "a", "n", "e", "o", "u", "s">>
GENERAL_ == <<"g", "e", "n", "e", "r", "a", "l">>
MISC_ == <<"m", "i", "s", "c">>
VARIOUS_ == <<"v", "a", "r", "i", "o", "u", "s">>
ARTICLE_ == <<"a", "r", "t", "i", "c", "l", "e">>
CONTENT_ == <<"c", "o", "n", "t", "e", "n", "t">>
VIDEO_ == <<"v", "i", "d", "e", "o">>
YOUTUBE_ == <<"y", "o", "u", "t", "u", "b", "e">>

\* genericTerms of generateTags, per provider service
GenericTerms(service) ==
    { OTHER_, MISCELLANEOUS_, GENERAL_, MISC_, VARIOUS_, ARTICLE_, CONTENT_ }
    \cup (IF service = "claude" THEN { VIDEO_, YOUTUBE_ } ELSE {})

\* String.prototype.includes over the parts of a string
Includes(s, part) == \E i \in 1..Len(s) : s[i] = part

\* as IsVideoUrl, matching the URL as written instead of its lower-cased form
IsVideoUrl_CaseSensitive(service, u) ==
    IF service = "openai"
    THEN \/ Includes(u, "youtube.com")
         \/ Includes(u, "vimeo.com")
         \/ Includes(u, "dailymotion.com")
         \/ Includes(u, "video")
    ELSE \/ Includes(u, "youtube.com")
         \/ Includes(u, "youtu.be")
         \/ Includes(u, "vimeo.com")
         \/ Includes(u, "dailymotion.com")

\* the "Quick URL-based category detection" of determineCategory
IsVideoUrl(service, u) ==
    LET urlLower == ToLowerCase(u)
    IN  IF service = "openai"
        THEN \/ Includes(urlLower, "youtube.com")
             \/ Includes(urlLower, "vimeo.com")
             \/ Includes(urlLower, "dailymotion.com")
             \/ Includes(urlLower, "video")
        ELSE \/ Includes(urlLower, "youtube.com")
             \/ Includes(urlLower, "youtu.be")
             \/ Includes(urlLower, "vimeo.com")
             \/ Includes(urlLower, "dailymotion.com")

IsResearchUrl(service, u) ==
    LET urlLower == ToLowerCase(u)
    IN  \/ Includes(urlLower, "arxiv.org")
        \/ Includes(urlLower, "research")
        \/ Includes(urlLower, "paper")
        \/ Includes(urlLower, "doi.org")

\* A provider's behaviour on one request: kind "throw" (the request rejects),
\* "malformed" (a response without the expected fields), "text" (a response
\* whose text is data); for tags the text is JSON, given by what JSON.parse
\* makes of it: "invalid" (a SyntaxError), "other" (not an array), "mixed" (an
\* array with an element that is no string) or "list" (an array of strings).
Fulfilled(v, failed) == [status |-> "fulfilled", failed |-> failed, value |-> v]
Rejected(v) == [status |-> "rejected", failed |-> TRUE, value |-> v]
Pending(v) == [status |-> "pending", failed |-> FALSE, value |-> v]

\* as generateSummary, without the "|| 'No summary available.'"
generateSummary_NoPlaceholder(service, reply) ==
    IF reply.kind # "text" THEN Fulfilled(SUMMARY_FAILED, TRUE)
    ELSE Fulfilled(Trim(reply.text), FALSE)

\* generateSummary from the provider's reply on: its try/catch turns every
\* failure into the fallback string
generateSummary(service, reply) ==
    IF reply.kind # "text" THEN Fulfilled(SUMMARY_FAILED, TRUE)
    ELSE LET summary == Trim(reply.text)
         IN  Fulfilled(IF summary = <<>> THEN NO_SUMMARY ELSE summary, FALSE)

\* as CleanTags, without the length limit
CleanTags_NoLengthLimit(service, tags) ==
    LET cleaned == [i \in 1..Len(tags) |-> Trim(ToLowerCase(tags[i]))]
        Keep(t) == /\ t # <<>>
                   /\ Len(t) > 0
                   /\ ToLowerCase(t) \notin GenericTerms(service)
    IN  SelectSeq(cleaned, Keep)

\* tags.map(tag => tag.toLowerCase().trim()).filter(...)
CleanTags(service, tags) ==
    LET cleaned == [i \in 1..Len(tags) |-> Trim(ToLowerCase(tags[i]))]
        Keep(t) == /\ t # <<>>
                   /\ Len(t) > 0
                   /\ ToLowerCase(t) \notin GenericTerms(service)
                   /\ Len(t) <= MaxTagChars
    IN  SelectSeq(cleaned, Keep)

\* generateTags from the provider's reply on
generateTags(service, reply) ==
    IF reply.kind # "text" THEN Fulfilled(<<>>, TRUE)
    ELSE IF reply.json # "list" THEN Fulfilled(<<>>, TRUE)
    ELSE Fulfilled(CleanTags(service, reply.tags), FALSE)

\* as determineCategory, the provider's trimmed answer returned unvalidated
determineCategory_AnyAnswer(service, reply) ==
    IF reply.kind # "text" THEN Fulfilled(ARTICLE, TRUE)
    ELSE Fulfilled(Trim(reply.text), FALSE)

\* determineCategory from the provider's reply on (no quick URL match)
determineCategory(service, reply) ==
    IF reply.kind # "text" THEN Fulfilled(ARTICLE, TRUE)
    ELSE LET category == Trim(reply.text)
         IN  Fulfilled(IF category \in CATEGORIES THEN category ELSE ARTICLE, FALSE)

\* promise.catch(error => fallback)
Catch(promise, fallback) ==
    IF promise.status = "rejected" THEN Fulfilled(fallback, TRUE) ELSE promise

\* content.substring(0, n), a content being a sequence of blocks of 500
\* characters each and n a multiple of 500
Substring(c, n) == SubSeq(c, 1, IF Len(c) < n \div 500 THEN Len(c) ELSE n \div 500)

\* the content generateSummary puts in its request
SummaryContent(service, c) ==
    IF service = "openai" THEN Substring(c, 1000) ELSE c

\* the content generateTags puts in its request, after the URL
TagsContent(service, c) ==
    IF service = "openai" THEN Substring(c, 1000) ELSE c

\* the content determineCategory puts in its request, after the URL
CategoryContent(service, c) ==
    IF service = "openai" THEN Substring(c, 1000) ELSE Substring(c, 2000)

Submitted(text) == [sent |-> TRUE, text |-> text]

----------------------------------------------------------------------------
(* services/ai: the dispatcher *)

\* as ConfigError, without the per-provider key checks of the switch
ConfigError_AnyKey(u) ==
    IF u.aiProvider = "" THEN "AI provider not specified"
    ELSE IF ~u.openAiKey /\ ~u.claudeKey
    THEN "No API key found. Please add an API key in your account settings."
    ELSE IF u.aiProvider \in {"openai", "claude"} THEN ""
    ELSE "Invalid AI provider specified"

\* the Error thrown by the checks of ai.analyzeContent, "" when none is
ConfigError(u) ==
    IF u.aiProvider = "" THEN "AI provider not specified"
    ELSE IF ~u.openAiKey /\ ~u.claudeKey
    THEN "No API key found. Please add an API key in your account settings."
    ELSE IF u.aiProvider = "openai"
    THEN (IF ~u.openAiKey
          THEN "OpenAI API key is required. Please add it in your account settings."
          ELSE "")
    ELSE IF u.aiProvider = "claude"
    THEN (IF ~u.claudeKey
          THEN "Claude API key is required. Please add it in your account settings."
          ELSE "")
    ELSE "Invalid AI provider specified"

\* the key handed to the provider service
UserApiKey(u) == IF u.aiProvider = "openai" THEN u.openAiKey ELSE u.claudeKey

\* the outcome of a call: nothing yet, a returned object, or a thrown Error
NotReturned ==
    [returned |-> FALSE, raised |-> FALSE, message |-> "",
     summary |-> <<>>, tags |-> <<>>, category |-> <<>>]

Returned(summary, tags, category) ==
    [returned |-> TRUE, raised |-> FALSE, message |-> "",
     summary |-> summary, tags |-> tags, category |-> category]

Thrown(message) ==
    [returned |-> TRUE, raised |-> TRUE, message |-> message,
     summary |-> <<>>, tags |-> <<>>, category |-> <<>>]

\* the catch block of ai.analyzeContent
AnalysisFailed(outcome) ==
    IF outcome.raised
    THEN Returned(<<"AI analysis failed: ", outcome.message, ". Please try again later.">>,
                  <<>>, ARTICLE)
    ELSE outcome

\* createOpenAIClient / createClaudeClient: throws without a key
ClientError(apiKey) == ~apiKey

\* the catch block of the provider service's analyzeContent
ServiceFailed == Returned(SUMMARY_FAILED, <<>>, ARTICLE)

\* as PromiseAllSettled, settling with the first sub-operation to settle
PromiseAllSettled_Any(s, t, c) ==
    \/ s.status # "pending"
    \/ t.status # "pending"
    \/ c.status # "pending"

\* when the promise of Promise.all([...]) settles: all fulfilled, or one rejected
PromiseAllSettled(s, t, c) ==
    \/ s.status = "fulfilled" /\ t.status = "fulfilled" /\ c.status = "fulfilled"
    \/ "rejected" \in {s.status, t.status, c.status}

\* as ComposeResult, one failed sub-operation failing the whole analysis
ComposeResult_AllOrNothing(s, t, c) ==
    IF s.failed \/ t.failed \/ c.failed
    THEN ServiceFailed
    ELSE Returned(s.value, t.value, c.value)

\* as ComposeResult, the fields filled in the order of completion
ComposeResult_CompletionOrder(s, t, c) ==
    LET ValueOf(name) ==
            CASE name = "summary" -> s.value
              [] name = "tags" -> t.value
              [] OTHER -> c.value
    IN  IF "rejected" \in {s.status, t.status, c.status}
        THEN ServiceFailed
        ELSE Returned(ValueOf(completed[1]), ValueOf(completed[2]), ValueOf(completed[3]))

\* what analyzeContent returns once Promise.all has settled
ComposeResult(s, t, c) ==
    IF "rejected" \in {s.status, t.status, c.status}
    THEN ServiceFailed
    ELSE Returned(s.value, t.value, c.value)

Idle(v) == [status |-> "idle", failed |-> FALSE, value |-> v]
NoRequests == [summary |-> 0, tags |-> 0, classify |-> 0]
\* no answer received
NoReply == [kind |-> "none", text |-> <<>>, json |-> "", tags |-> <<>>]

\* an empty collection, no request served
StoreIdle ==
    /\ bookmarks = <<>>
    /\ response = 0

\* no content, nothing sent to a provider
NotSubmitted == [sent |-> FALSE, text |-> <<>>]
PromptIdle ==
    /\ content = <<>>
    /\ submitted = NotSubmitted
    /\ answer = NoReply

\* no folder, no request in progress
FoldersIdle ==
    /\ folders = <<>>
    /\ inflight = {}

AnalysisIdle ==
    /\ user = [aiProvider |-> "", openAiKey |-> FALSE, claudeKey |-> FALSE]
    /\ url = <<>>
    /\ variant = ""
    /\ summaryTask = Idle(<<>>)
    /\ tagsTask = Idle(<<>>)
    /\ categoryTask = Idle(<<>>)
    /\ requests = NoRequests
    /\ tagsReply = NoReply
    /\ completed = <<>>
    /\ result = NotReturned

----------------------------------------------------------------------------
(* Scenario: normalizeTag applied to a raw tag, then to its own output *)

InitNormalize ==
    /\ pc = "raw"
    /\ tag \in Strings(Chars, MaxTagLen)
    /\ normalized = <<>>
    /\ renormalized = <<>>
    /\ newTags = <<>>
    /\ existingTags = <<>>
    /\ found = NoMatch
    /\ processed = NoTags
    /\ reprocessed = NoTags
    /\ AnalysisIdle
    /\ PromptIdle
    /\ FoldersIdle
    /\ StoreIdle

Normalize ==
    /\ pc = "raw"
    /\ normalized' = normalizeTag(tag)
    /\ pc' = "normalized"
    /\ UNCHANGED <<tag, renormalized, procVars, aiVars, storeVars, promptVars, folderVars>>

Renormalize ==
    /\ pc = "normalized"
    /\ renormalized' = normalizeTag(normalized)
    /\ pc' = "renormalized"
    /\ UNCHANGED <<tag, normalized, procVars, aiVars, storeVars, promptVars, folderVars>>

NextNormalize == Normalize \/ Renormalize

SpecNormalize == InitNormalize /\ [][NextNormalize]_vars

----------------------------------------------------------------------------
(* Scenario: processTags(newTags, existingTags), findSimilarTag on the first   *)
(* new tag, and processTags run again on its own output                       *)

\* the sequences over set of length at most n
SeqsUpTo(set, n) == UNION {[1..k -> set] : k \in 0..n}

\* callers pass Array.from(new Set(...)): no tag twice
Distinct(seq) == \A i, j \in 1..Len(seq) : i # j => seq[i] # seq[j]

VocabTags == Strings(VocabChars, MaxVocabLen)

\* what a bookmark can hold: stored tags are only written from processTags
\* results, whose elements are non-empty outputs of normalizeTag
StoredTags == {normalizeTag(t) : t \in Strings(VocabChars, MaxVocabLen + 1)} \ {<<>>}

InitTags ==
    /\ pc = "input"
    /\ newTags \in SeqsUpTo(VocabTags, MaxNew)
    /\ existingTags \in SeqsUpTo(StoredTags, MaxExisting)
    /\ Distinct(existingTags)
    /\ Len(newTags) + Len(existingTags) <= MaxTags
    /\ found = NoMatch
    /\ processed = NoTags
    /\ reprocessed = NoTags
    /\ tag = <<>>
    /\ normalized = <<>>
    /\ renormalized = <<>>
    /\ AnalysisIdle
    /\ PromptIdle
    /\ FoldersIdle
    /\ StoreIdle

FindSimilarTag ==
    /\ pc = "input"
    /\ newTags # <<>>
    /\ found' = findSimilarTag(newTags[1], existingTags)
    /\ pc' = "matched"
    /\ UNCHANGED <<newTags, existingTags, processed, reprocessed, tagVars, aiVars, storeVars, promptVars, folderVars>>

ProcessTags ==
    /\ pc = "input"
    /\ processed' = processTags(newTags, existingTags)
    /\ pc' = "processed"
    /\ UNCHANGED <<newTags, existingTags, found, reprocessed, tagVars, aiVars, storeVars, promptVars, folderVars>>

ReprocessTags ==
    /\ pc = "processed"
    /\ ~processed.threw
    /\ reprocessed' = processTags(processed.tags, processed.tags)
    /\ pc' = "reprocessed"
    /\ UNCHANGED <<newTags, existingTags, found, processed, tagVars, aiVars, storeVars, promptVars, folderVars>>

NextTags == FindSimilarTag \/ ProcessTags \/ ReprocessTags

SpecTags == InitTags /\ [][NextTags]_vars

----------------------------------------------------------------------------
(* Scenario: processTags(newTags, existingTags) over new tags that are empty,  *)
(* made of spaces or padded with them, and a non-empty list of existing tags  *)

\* "", " ", "  ", "ai", " ai ", "as", "the   s"
BlankTags ==
    {<<>>, <<" ">>, <<" ", " ">>, <<"a", "i">>, <<" ", "a", "i", " ">>,
     <<"a", "s">>, <<"t", "h", "e", " ", " ", " ", "s">>}

\* tags of the user's bookmarks: "", "  ", "ai", "a"
BlankStored == {<<>>, <<" ", " ">>, <<"a", "i">>, <<"a">>}

InitBlank ==
    /\ pc = "input"
    /\ newTags \in SeqsUpTo(BlankTags, MaxNew)
    /\ existingTags \in SeqsUpTo(BlankStored, MaxExisting)
    /\ existingTags # <<>>
    /\ Distinct(existingTags)
    /\ found = NoMatch
    /\ processed = NoTags
    /\ reprocessed = NoTags
    /\ tag = <<>>
    /\ normalized = <<>>
    /\ renormalized = <<>>
    /\ AnalysisIdle
    /\ PromptIdle
    /\ FoldersIdle
    /\ StoreIdle

NextBlank == ProcessTags

SpecBlank == InitBlank /\ [][NextBlank]_vars

----------------------------------------------------------------------------
(* Scenario: findSimilarTag(tag, existingTags) called on its own, over any     *)
(* candidate and any duplicate-free list of existing tags                     *)

MatchTags == Strings(VocabChars, MaxMatchLen)

\* the characters of the tags of seq, counted together
RECURSIVE TotalLen(_)
TotalLen(seq) == IF seq = <<>> THEN 0 ELSE Len(Head(seq)) + TotalLen(Tail(seq))

InitMatch ==
    /\ pc = "candidate"
    /\ existingTags \in SeqsUpTo(MatchTags, MaxMatchExisting)
    /\ Distinct(existingTags)
    /\ TotalLen(existingTags) <= MaxMatchChars
    /\ tag \in MatchTags
    /\ found = NoMatch
    /\ normalized = <<>>
    /\ renormalized = <<>>
    /\ newTags = <<>>
    /\ processed = NoTags
    /\ reprocessed = NoTags
    /\ AnalysisIdle
    /\ PromptIdle
    /\ FoldersIdle
    /\ StoreIdle

MatchTag ==
    /\ pc = "candidate"
    /\ found' = findSimilarTag(tag, existingTags)
    /\ pc' = "matched"
    /\ UNCHANGED <<tag, normalized, renormalized, existingTags, newTags,
                   processed, reprocessed, aiVars, storeVars, promptVars, folderVars>>

NextMatch == MatchTag

SpecMatch == InitMatch /\ [][NextMatch]_vars

----------------------------------------------------------------------------
(* Scenario: one call of ai.analyzeContent(url, content, user); the provider   *)
(* answers the three requests in any order and in any way                     *)

Providers == {"", "openai", "claude", "gemini"}
Users == [aiProvider : Providers, openAiKey : BOOLEAN, claudeKey : BOOLEAN]

UrlParts == {"youtube.com", "YouTube.com", "youtu.be", "video", "paper", "example.com"}
Urls == SeqsUpTo(UrlParts, MaxUrlParts) \ {<<>>}

Reply(kind, text, json, tags) == [kind |-> kind, text |-> text, json |-> json, tags |-> tags]
Failures == {Reply("throw", <<>>, "", <<>>), Reply("malformed", <<>>, "", <<>>)}

SummaryTexts == {<<>>, <<" ">>, <<"Summary.">>, <<" ", "Summary.", " ">>}
SummaryReplies == Failures \cup {Reply("text", t, "", <<>>) : t \in SummaryTexts}

LongTag == [i \in 1..(MaxTagChars + 1) |-> "x"]
ReplyTags == {<<"a", "i">>, <<" ", "A", "I", " ">>, OTHER_, VIDEO_, <<>>, LongTag}
TagReplies ==
    Failures
    \cup {Reply("text", <<>>, j, <<>>) : j \in {"invalid", "other", "mixed"}}
    \cup {Reply("text", <<>>, "list", ts) : ts \in SeqsUpTo(ReplyTags, MaxReplyTags)}

CategoryTexts ==
    {ARTICLE, RESEARCH, <<" ", "Video", " ">>, <<"video">>, <<"Video", " ", "content">>, <<>>}
CategoryReplies == Failures \cup {Reply("text", t, "", <<>>) : t \in CategoryTexts}

InitAnalyze ==
    /\ pc = "call"
    /\ user \in Users
    /\ url \in Urls
    /\ variant = ""
    /\ summaryTask = Idle(<<>>)
    /\ tagsTask = Idle(<<>>)
    /\ categoryTask = Idle(<<>>)
    /\ requests = NoRequests
    /\ tagsReply = NoReply
    /\ completed = <<>>
    /\ result = NotReturned
    /\ StoreIdle
    /\ PromptIdle
    /\ FoldersIdle
    /\ tag = <<>>
    /\ normalized = <<>>
    /\ renormalized = <<>>
    /\ newTags = <<>>
    /\ existingTags = <<>>
    /\ found = NoMatch
    /\ processed = NoTags
    /\ reprocessed = NoTags

\* ai.analyzeContent up to its await: the configuration checks, the client, and
\* the three sub-operations, each running up to its own request
Dispatch ==
    /\ pc = "call"
    /\ LET error == ConfigError(user)
       IN  IF error # ""
           THEN /\ result' = AnalysisFailed(Thrown(error))
                /\ pc' = "returned"
                /\ UNCHANGED <<variant, taskVars, requests, completed>>
           ELSE IF ClientError(UserApiKey(user))
           THEN /\ variant' = user.aiProvider
                /\ result' = AnalysisFailed(ServiceFailed)
                /\ pc' = "returned"
                /\ UNCHANGED <<taskVars, requests, completed>>
           ELSE /\ variant' = user.aiProvider
                /\ summaryTask' = Pending(<<>>)
                /\ tagsTask' = Pending(<<>>)
                /\ categoryTask' =
                        IF IsVideoUrl(user.aiProvider, url) THEN Fulfilled(VIDEO, FALSE)
                        ELSE IF IsResearchUrl(user.aiProvider, url) THEN Fulfilled(RESEARCH, FALSE)
                        ELSE Pending(<<>>)
                /\ requests' =
                        [summary |-> 1, tags |-> 1,
                         classify |-> IF \/ IsVideoUrl(user.aiProvider, url)
                                         \/ IsResearchUrl(user.aiProvider, url)
                                      THEN 0 ELSE 1]
                /\ completed' =
                        IF \/ IsVideoUrl(user.aiProvider, url)
                           \/ IsResearchUrl(user.aiProvider, url)
                        THEN <<"category">> ELSE <<>>
                /\ pc' = "awaiting"
                /\ UNCHANGED result
    /\ UNCHANGED <<user, url, tagsReply, tagVars, procVars, storeVars, promptVars, folderVars>>

\* the provider settles the summary request
SummaryReply ==
    /\ summaryTask.status = "pending"
    /\ \E reply \in SummaryReplies :
            summaryTask' = Catch(generateSummary(variant, reply), SUMMARY_FAILED)
    /\ completed' = Append(completed, "summary")
    /\ UNCHANGED <<pc, user, url, variant, tagsTask, categoryTask, requests, tagsReply, result, tagVars, procVars, storeVars, promptVars, folderVars>>

\* the provider settles the tag request
TagsReply ==
    /\ tagsTask.status = "pending"
    /\ \E reply \in TagReplies :
            /\ tagsTask' = Catch(generateTags(variant, reply), <<>>)
            /\ tagsReply' = reply
    /\ completed' = Append(completed, "tags")
    /\ UNCHANGED <<pc, user, url, variant, summaryTask, categoryTask, requests, result, tagVars, procVars, storeVars, promptVars, folderVars>>

\* the provider settles the classification request
CategoryReply ==
    /\ categoryTask.status = "pending"
    /\ \E reply \in CategoryReplies :
            categoryTask' = Catch(determineCategory(variant, reply), ARTICLE)
    /\ completed' = Append(completed, "category")
    /\ UNCHANGED <<pc, user, url, variant, summaryTask, tagsTask, requests, tagsReply, result, tagVars, procVars, storeVars, promptVars, folderVars>>

\* await Promise.all([...]) resumes and analyzeContent returns
Return ==
    /\ pc = "awaiting"
    /\ PromiseAllSettled(summaryTask, tagsTask, categoryTask)
    /\ result' = AnalysisFailed(ComposeResult(summaryTask, tagsTask, categoryTask))
    /\ pc' = "returned"
    /\ UNCHANGED <<user, url, variant, taskVars, requests, tagsReply, completed, tagVars,
                   procVars, storeVars, promptVars, folderVars>>

NextAnalyze == Dispatch \/ SummaryReply \/ TagsReply \/ CategoryReply \/ Return

SpecAnalyze == InitAnalyze /\ [][NextAnalyze]_vars

----------------------------------------------------------------------------
(* Scenario: one sub-operation of a provider service called on its own, with   *)
(* the request it sends and the answer it gets                                *)

ContentBlocks == {"p", "q"}
Contents == SeqsUpTo(ContentBlocks, MaxContentBlocks)
ServiceUrls == {<<part>> : part \in UrlParts}

InitService ==
    /\ pc = "service"
    /\ variant \in {"openai", "claude"}
    /\ url \in ServiceUrls
    /\ content \in Contents
    /\ submitted = NotSubmitted
    /\ answer = NoReply
    /\ user = [aiProvider |-> "", openAiKey |-> FALSE, claudeKey |-> FALSE]
    /\ summaryTask = Idle(<<>>)
    /\ tagsTask = Idle(<<>>)
    /\ categoryTask = Idle(<<>>)
    /\ requests = NoRequests
    /\ tagsReply = NoReply
    /\ completed = <<>>
    /\ result = NotReturned
    /\ tag = <<>>
    /\ normalized = <<>>
    /\ renormalized = <<>>
    /\ newTags = <<>>
    /\ existingTags = <<>>
    /\ found = NoMatch
    /\ processed = NoTags
    /\ reprocessed = NoTags
    /\ StoreIdle
    /\ FoldersIdle

\* generateSummary(content, ...)
GenerateSummary ==
    /\ pc = "service"
    /\ submitted' = Submitted(SummaryContent(variant, content))
    /\ \E r \in SummaryReplies :
            /\ answer' = r
            /\ summaryTask' = generateSummary(variant, r)
    /\ pc' = "summary"
    /\ UNCHANGED <<user, url, variant, content, tagsTask, categoryTask, requests, tagsReply,
                   completed, result, tagVars, procVars, storeVars, folderVars>>

\* generateTags(content, url, ...)
GenerateTags ==
    /\ pc = "service"
    /\ submitted' = Submitted(TagsContent(variant, content))
    /\ \E r \in TagReplies :
            /\ answer' = r
            /\ tagsTask' = generateTags(variant, r)
    /\ pc' = "tags"
    /\ UNCHANGED <<user, url, variant, content, summaryTask, categoryTask, requests, tagsReply,
                   completed, result, tagVars, procVars, storeVars, folderVars>>

\* determineCategory(content, url, ...)
DetermineCategory ==
    /\ pc = "service"
    /\ IF IsVideoUrl(variant, url)
       THEN /\ categoryTask' = Fulfilled(VIDEO, FALSE)
            /\ UNCHANGED <<submitted, answer>>
       ELSE IF IsResearchUrl(variant, url)
       THEN /\ categoryTask' = Fulfilled(RESEARCH, FALSE)
            /\ UNCHANGED <<submitted, answer>>
       ELSE /\ submitted' = Submitted(CategoryContent(variant, content))
            /\ \E r \in CategoryReplies :
                    /\ answer' = r
                    /\ categoryTask' = determineCategory(variant, r)
    /\ pc' = "category"
    /\ UNCHANGED <<user, url, variant, content, summaryTask, tagsTask, requests, tagsReply,
                   completed, result, tagVars, procVars, storeVars, folderVars>>

NextService == GenerateSummary \/ GenerateTags \/ DetermineCategory

SpecService == InitService /\ [][NextService]_vars

----------------------------------------------------------------------------
(* routes/bookmarks: the requests that write tags, served one after another    *)
(* over the Bookmark collection.  A bookmark's _id is its position in the     *)
(* collection.                                                                *)

\* most bookmarks in the collection
MaxBookmarks == 2
\* most tags in a request body or in a provider's tag reply
MaxRequestTags == 2
\* most bookmarks in the database when the server starts
MaxSeeded == 1

StoreUsers == {"u1", "u2"}
StoreUrls == {"a.example", "b.example"}

AI_ == <<"a", "i">>
VIDEOS_ == <<"v", "i", "d", "e", "o", "s">>

\* "the   s" and "the    s": normalizeTag leaves two and three spaces of them
THE_S_ == <<"t", "h", "e", " ", " ", " ", "s">>
THE__S_ == <<"t", "h", "e", " ", " ", " ", " ", "s">>

\* tags of request bodies and of provider replies
RequestTags == {AI_, OTHER_, VIDEOS_}
RequestTagLists == SeqsUpTo(RequestTags, MaxRequestTags)

\* tags whose normal form is made of spaces, with an ordinary one
ShapeTags == {AI_, THE_S_, THE__S_}
ShapeTagLists == SeqsUpTo(ShapeTags, MaxRequestTags)

\* adds the elements of seq to the insertion-ordered set
RECURSIVE AddAll(_, _)
AddAll(set, seq) ==
    IF seq = <<>> THEN set ELSE AddAll(SetAdd(set, Head(seq)), Tail(seq))

\* Array.from(new Set(existingBookmarks.flatMap(b => b.tags || []))) over the
\* bookmarks of user u, from bookmark i on
RECURSIVE ExistingTagsFrom(_, _, _, _)
ExistingTagsFrom(bs, u, i, set) ==
    IF i > Len(bs) THEN set
    ELSE ExistingTagsFrom(bs, u, i + 1,
                          IF bs[i].user = u THEN AddAll(set, bs[i].tags) ELSE set)

ExistingTagsOf(bs, u) == ExistingTagsFrom(bs, u, 1, <<>>)

\* the pre-save hook: [...new Set(this.tags.map(tag => tag.trim()))]
PreSave(tags) == AddAll(<<>>, [i \in 1..Len(tags) |-> Trim(tags[i])])

\* $pullAll: { tags: removed }
PullAll(tags, removed) ==
    SelectSeq(tags, LAMBDA t : ~\E j \in 1..Len(removed) : removed[j] = t)

\* the database as the server finds it: bookmarks saved earlier, their tags
\* results of processTags
SeedBookmarks == [user : StoreUsers, url : StoreUrls, tags : {<<>>, <<AI_>>}]

InitStore ==
    /\ pc = "serving"
    /\ bookmarks \in SeqsUpTo(SeedBookmarks, MaxSeeded)
    /\ response = 0
    /\ tag = <<>>
    /\ normalized = <<>>
    /\ renormalized = <<>>
    /\ newTags = <<>>
    /\ existingTags = <<>>
    /\ found = NoMatch
    /\ processed = NoTags
    /\ reprocessed = NoTags
    /\ AnalysisIdle
    /\ PromptIdle
    /\ FoldersIdle

\* the replies of the provider to the tag request of a POST /bookmarks, its
\* tag lists among lists
TagRepliesOf(lists) == Failures \cup {Reply("text", <<>>, "list", ts) : ts \in lists}

\* POST /bookmarks by user u, the server at stage at and the tag lists of
\* provider replies among lists.  hasKey: the user has an API key; fetched:
\* the page could be fetched; the analysis yields the tags generateTags makes
\* of the provider's reply.
PostBookmarkIn(at, lists) ==
    /\ pc = at
    /\ \E u \in StoreUsers, cleanedUrl \in StoreUrls :
        IF \E i \in 1..Len(bookmarks) : bookmarks[i].url = cleanedUrl /\ bookmarks[i].user = u
        THEN response' = 400 /\ UNCHANGED bookmarks
        ELSE \E hasKey \in BOOLEAN, fetched \in BOOLEAN :
            IF ~hasKey \/ ~fetched
            THEN response' = 400 /\ UNCHANGED bookmarks
            ELSE \E service \in {"openai", "claude"}, reply \in TagRepliesOf(lists) :
                LET analysisTags == Catch(generateTags(service, reply), <<>>).value
                    normalizedTags == processTags(analysisTags, ExistingTagsOf(bookmarks, u))
                IN  IF normalizedTags.threw
                    THEN response' = 500 /\ UNCHANGED bookmarks
                    ELSE /\ Len(bookmarks) < MaxBookmarks
                         /\ bookmarks' = Append(bookmarks,
                                [user |-> u, url |-> cleanedUrl,
                                 tags |-> PreSave(normalizedTags.tags)])
                         /\ response' = 201
    /\ UNCHANGED <<pc, tagVars, procVars, aiVars, promptVars, folderVars>>

\* PUT /bookmarks/:id by user u, the tags of the body among lists; hasTags:
\* the body has a tags field
PutBookmarkIn(at, lists) ==
    /\ pc = at
    /\ \E u \in StoreUsers, id \in 1..MaxBookmarks :
        IF id > Len(bookmarks) \/ bookmarks[id].user # u
        THEN response' = 404 /\ UNCHANGED bookmarks
        ELSE \E hasTags \in BOOLEAN :
            IF ~hasTags
            THEN /\ bookmarks' = [bookmarks EXCEPT ![id].tags = PreSave(@)]
                 /\ response' = 200
            ELSE \E tags \in lists :
                LET processedTags == processTags(tags, ExistingTagsOf(bookmarks, u))
                IN  IF processedTags.threw
                    THEN response' = 500 /\ UNCHANGED bookmarks
                    ELSE /\ bookmarks' =
                                [bookmarks EXCEPT ![id].tags = PreSave(processedTags.tags)]
                         /\ response' = 200
    /\ UNCHANGED <<pc, tagVars, procVars, aiVars, promptVars, folderVars>>

\* the schema's trim: true, a setter, applied to each tag of an update
TrimEach(tags) == [i \in 1..Len(tags) |-> Trim(tags[i])]

\* POST /bookmarks/bulk with action 'tag'; isArray: data.tags is an array.
\* updateMany runs no save hook; whether it runs the schema's setters depends
\* on the Mongoose release (settersOnUpdate).
BulkTagIn(at, lists) ==
    /\ pc = at
    /\ \E u \in StoreUsers, bookmarkIds \in SUBSET (1..MaxBookmarks), isArray \in BOOLEAN :
        IF bookmarkIds = {} \/ ~isArray
        THEN response' = 400 /\ UNCHANGED bookmarks
        ELSE \E tags \in lists, settersOnUpdate \in BOOLEAN :
            LET normalizedNewTags == processTags(tags, ExistingTagsOf(bookmarks, u))
                written == IF settersOnUpdate THEN TrimEach(normalizedNewTags.tags)
                           ELSE normalizedNewTags.tags
            IN  IF normalizedNewTags.threw
                THEN response' = 500 /\ UNCHANGED bookmarks
                ELSE /\ bookmarks' =
                            [i \in 1..Len(bookmarks) |->
                                IF i \in bookmarkIds /\ bookmarks[i].user = u
                                THEN [bookmarks[i] EXCEPT !.tags = written]
                                ELSE bookmarks[i]]
                     /\ response' = 200
    /\ UNCHANGED <<pc, tagVars, procVars, aiVars, promptVars, folderVars>>

\* POST /bookmarks/bulk with action 'untag'
BulkUntagIn(at, lists) ==
    /\ pc = at
    /\ \E u \in StoreUsers, bookmarkIds \in SUBSET (1..MaxBookmarks), isArray \in BOOLEAN :
        IF bookmarkIds = {} \/ ~isArray
        THEN response' = 400 /\ UNCHANGED bookmarks
        ELSE \E tags \in lists :
            /\ bookmarks' =
                    [i \in 1..Len(bookmarks) |->
                        IF i \in bookmarkIds /\ bookmarks[i].user = u
                        THEN [bookmarks[i] EXCEPT !.tags = PullAll(@, tags)]
                        ELSE bookmarks[i]]
            /\ response' = 200
    /\ UNCHANGED <<pc, tagVars, procVars, aiVars, promptVars, folderVars>>

PostBookmark == PostBookmarkIn("serving", RequestTagLists)
PutBookmark == PutBookmarkIn("serving", RequestTagLists)
BulkTag == BulkTagIn("serving", RequestTagLists)
BulkUntag == BulkUntagIn("serving", RequestTagLists)

NextStore == PostBookmark \/ PutBookmark \/ BulkTag \/ BulkUntag

SpecStore == InitStore /\ [][NextStore]_vars

----------------------------------------------------------------------------
(* The same routes, serving requests whose tags normalize to spaces. *)

InitShape ==
    /\ pc = "shaping"
    /\ bookmarks \in SeqsUpTo(SeedBookmarks, MaxSeeded)
    /\ response = 0
    /\ tag = <<>>
    /\ normalized = <<>>
    /\ renormalized = <<>>
    /\ newTags = <<>>
    /\ existingTags = <<>>
    /\ found = NoMatch
    /\ processed = NoTags
    /\ reprocessed = NoTags
    /\ AnalysisIdle
    /\ PromptIdle
    /\ FoldersIdle

PostShaped == PostBookmarkIn("shaping", ShapeTagLists)
PutShaped == PutBookmarkIn("shaping", ShapeTagLists)
BulkTagShaped == BulkTagIn("shaping", ShapeTagLists)
BulkUntagShaped == BulkUntagIn("shaping", ShapeTagLists)

NextShape == PostShaped \/ PutShaped \/ BulkTagShaped \/ BulkUntagShaped

SpecShape == InitShape /\ [][NextShape]_vars

----------------------------------------------------------------------------
(* Scenario: POST /bookmarks requests served concurrently; a request gives    *)
(* way to the others at its awaits                                            *)

\* most requests in progress at a time
MaxInflight == 2

CreateUrls == {"a.example"}

\* the User documents a request can find: no key at all; OpenAI selected with
\* its key; OpenAI selected with only the Claude key stored; no provider
Accounts ==
    {[aiProvider |-> "openai", openAiKey |-> FALSE, claudeKey |-> FALSE],
     [aiProvider |-> "openai", openAiKey |-> TRUE, claudeKey |-> FALSE],
     [aiProvider |-> "openai", openAiKey |-> FALSE, claudeKey |-> TRUE],
     [aiProvider |-> "", openAiKey |-> TRUE, claudeKey |-> TRUE]}

\* what the provider answers to the three requests of an analysis
CreateSummaryReplies ==
    {Reply("throw", <<>>, "", <<>>), Reply("text", <<"Summary.">>, "", <<>>)}
CreateTagReplies ==
    {Reply("throw", <<>>, "", <<>>), Reply("text", <<>>, "list", <<AI_>>)}
CreateCategoryReplies == {Reply("text", ARTICLE, "", <<>>)}

\* ai.analyzeContent(url, content, user) from call to return, the provider
\* answering the three requests with s, t and c; the URL is none of the
\* video or research addresses
AnalyzeContent(u, s, t, c) ==
    LET error == ConfigError(u)
    IN  IF error # ""
        THEN AnalysisFailed(Thrown(error))
        ELSE IF ClientError(UserApiKey(u))
        THEN AnalysisFailed(ServiceFailed)
        ELSE AnalysisFailed(ComposeResult(
                Catch(generateSummary(u.aiProvider, s), SUMMARY_FAILED),
                Catch(generateTags(u.aiProvider, t), <<>>),
                Catch(determineCategory(u.aiProvider, c), ARTICLE)))

\* the bookmarks of user u at url
Bookmarked(bs, u, cleanedUrl) ==
    {i \in 1..Len(bs) : bs[i].url = cleanedUrl /\ bs[i].user = u}

InitCreate ==
    /\ pc = "listening"
    /\ bookmarks = <<>>
    /\ response = 0
    /\ inflight = {}
    /\ folders = <<>>
    /\ tag = <<>>
    /\ normalized = <<>>
    /\ renormalized = <<>>
    /\ newTags = <<>>
    /\ existingTags = <<>>
    /\ found = NoMatch
    /\ processed = NoTags
    /\ reprocessed = NoTags
    /\ AnalysisIdle
    /\ PromptIdle

\* POST /bookmarks up to its first await: the request arrives and looks for a
\* bookmark of the user at the cleaned URL
PostCheck ==
    /\ pc = "listening"
    /\ \E id \in 1..MaxInflight, u \in StoreUsers, cleanedUrl \in CreateUrls :
        /\ \A r \in inflight : r.id # id
        /\ IF Bookmarked(bookmarks, u, cleanedUrl) # {}
           THEN response' = 400 /\ UNCHANGED inflight
           ELSE /\ inflight' = inflight \cup
                        {[id |-> id, user |-> u, url |-> cleanedUrl, stage |-> "checked",
                          analysisResult |-> NotReturned]}
                /\ UNCHANGED response
    /\ UNCHANGED <<pc, bookmarks, folders, tagVars, procVars, aiVars, promptVars>>

\* from the duplicate check to the return of analyzeContent: the User
\* document, the page and the analysis.  fetched: the page could be fetched.
PostAnalyze ==
    /\ pc = "listening"
    /\ \E r \in inflight :
        /\ r.stage = "checked"
        /\ \E account \in Accounts, fetched \in BOOLEAN :
            IF (~account.openAiKey /\ ~account.claudeKey) \/ ~fetched
            THEN /\ response' = 400
                 /\ inflight' = inflight \ {r}
            ELSE \E s \in CreateSummaryReplies, t \in CreateTagReplies,
                    c \in CreateCategoryReplies :
                /\ inflight' = (inflight \ {r}) \cup
                        {[r EXCEPT !.stage = "analyzed",
                                   !.analysisResult = AnalyzeContent(account, s, t, c)]}
                /\ UNCHANGED response
    /\ UNCHANGED <<pc, bookmarks, folders, tagVars, procVars, aiVars, promptVars>>

\* from the return of analyzeContent to the response: the user's tags,
\* processTags and Bookmark.create
PostCreate ==
    /\ pc = "listening"
    /\ \E r \in inflight :
        /\ r.stage = "analyzed"
        /\ LET normalizedTags ==
                    processTags(r.analysisResult.tags, ExistingTagsOf(bookmarks, r.user))
           IN  IF normalizedTags.threw
               THEN response' = 500 /\ UNCHANGED bookmarks
               ELSE /\ Len(bookmarks) < MaxBookmarks
                    /\ bookmarks' = Append(bookmarks,
                            [user |-> r.user, url |-> r.url,
                             aiSummary |-> r.analysisResult.summary,
                             tags |-> PreSave(normalizedTags.tags)])
                    /\ response' = 201
        /\ inflight' = inflight \ {r}
    /\ UNCHANGED <<pc, folders, tagVars, procVars, aiVars, promptVars>>

NextCreate == PostCheck \/ PostAnalyze \/ PostCreate

SpecCreate == InitCreate /\ [][NextCreate]_vars

----------------------------------------------------------------------------
(* Scenario: the folder routes and the routes that file bookmarks in folders, *)
(* served to two users; DELETE /folders/:id gives way at its awaits           *)

\* most folders ever created
MaxFolders == 2

\* a folder document; its _id is its place in folders, and parent 0 is null
FolderDoc(u, parent) == [user |-> u, parent |-> parent, exists |-> TRUE]

\* the response sent last, or with status 0 the request being served, and the
\* user of that request
Response(u, status) == [user |-> u, status |-> status]

\* Folder.findOne({_id: id, user: u})
FolderFound(fs, id, u) == id \in 1..Len(fs) /\ fs[id].exists /\ fs[id].user = u

InitFolders ==
    /\ pc = "listening"
    /\ bookmarks = [i \in 1..MaxBookmarks |->
                        [user |-> IF i = 1 THEN "u1" ELSE "u2", url |-> "a.example",
                         tags |-> <<>>, folder |-> 0]]
    /\ folders = <<>>
    /\ inflight = {}
    /\ response = Response("u1", 0)
    /\ tag = <<>>
    /\ normalized = <<>>
    /\ renormalized = <<>>
    /\ newTags = <<>>
    /\ existingTags = <<>>
    /\ found = NoMatch
    /\ processed = NoTags
    /\ reprocessed = NoTags
    /\ AnalysisIdle
    /\ PromptIdle

\* POST /folders by user u; parent is the id, or null, of the body
CreateFolder ==
    /\ pc = "listening"
    /\ Len(folders) < MaxFolders
    /\ \E u \in StoreUsers, parent \in 0..Len(folders) :
        /\ folders' = Append(folders, FolderDoc(u, parent))
        /\ response' = Response(u, 201)
    /\ UNCHANGED <<pc, bookmarks, inflight, tagVars, procVars, aiVars, promptVars>>

\* PUT /folders/:id by user u
UpdateFolder ==
    /\ pc = "listening"
    /\ \E u \in StoreUsers, id \in 1..MaxFolders, parent \in 0..Len(folders) :
        IF ~FolderFound(folders, id, u)
        THEN response' = Response(u, 404) /\ UNCHANGED folders
        ELSE IF parent # 0 /\ parent = id
        THEN response' = Response(u, 400) /\ UNCHANGED folders
        ELSE /\ folders' = [folders EXCEPT ![id].parent = parent]
             /\ response' = Response(u, 200)
    /\ UNCHANGED <<pc, bookmarks, inflight, tagVars, procVars, aiVars, promptVars>>

\* PUT /bookmarks/:id by user u with the body {folder}
MoveBookmark ==
    /\ pc = "listening"
    /\ \E u \in StoreUsers, id \in 1..MaxBookmarks, folder \in 0..Len(folders) :
        IF id > Len(bookmarks) \/ bookmarks[id].user # u
        THEN response' = Response(u, 404) /\ UNCHANGED bookmarks
        ELSE /\ bookmarks' = [bookmarks EXCEPT ![id].folder = folder,
                                               ![id].tags = PreSave(@)]
             /\ response' = Response(u, 200)
    /\ UNCHANGED <<pc, folders, inflight, tagVars, procVars, aiVars, promptVars>>

\* POST /bookmarks/bulk with action 'move' by user u
BulkMove ==
    /\ pc = "listening"
    /\ \E u \in StoreUsers, bookmarkIds \in SUBSET (1..MaxBookmarks),
          folderId \in 0..Len(folders) :
        IF bookmarkIds = {}
        THEN response' = Response(u, 400) /\ UNCHANGED bookmarks
        ELSE /\ bookmarks' =
                    [i \in 1..Len(bookmarks) |->
                        IF i \in bookmarkIds /\ bookmarks[i].user = u
                        THEN [bookmarks[i] EXCEPT !.folder = folderId]
                        ELSE bookmarks[i]]
             /\ response' = Response(u, 200)
    /\ UNCHANGED <<pc, folders, inflight, tagVars, procVars, aiVars, promptVars>>

\* DELETE /folders/:id by user u up to its first await resuming: the folder
\* is looked up
DeleteFind ==
    /\ pc = "listening"
    /\ \E u \in StoreUsers, id \in 1..MaxFolders :
        IF ~FolderFound(folders, id, u)
        THEN response' = Response(u, 404) /\ UNCHANGED inflight
        ELSE /\ Cardinality(inflight) < MaxInflight
             /\ \A r \in inflight : r.id # id
             /\ inflight' = inflight \cup {[id |-> id, user |-> u, stage |-> "found"]}
             /\ response' = Response(u, 0)
    /\ UNCHANGED <<pc, bookmarks, folders, tagVars, procVars, aiVars, promptVars>>

\* Bookmark.updateMany({folder: folder._id}, {$set: {folder: null}})
DeleteMoveBookmarks ==
    /\ pc = "listening"
    /\ \E r \in inflight :
        /\ r.stage = "found"
        /\ bookmarks' = [i \in 1..Len(bookmarks) |->
                            IF bookmarks[i].folder = r.id
                            THEN [bookmarks[i] EXCEPT !.folder = 0]
                            ELSE bookmarks[i]]
        /\ inflight' = (inflight \ {r}) \cup {[r EXCEPT !.stage = "bookmarks"]}
        /\ response' = Response(r.user, 0)
    /\ UNCHANGED <<pc, folders, tagVars, procVars, aiVars, promptVars>>

\* Folder.updateMany({parent: folder._id}, {$set: {parent: null}})
DeleteMoveSubfolders ==
    /\ pc = "listening"
    /\ \E r \in inflight :
        /\ r.stage = "bookmarks"
        /\ folders' = [i \in 1..Len(folders) |->
                          IF folders[i].exists /\ folders[i].parent = r.id
                          THEN [folders[i] EXCEPT !.parent = 0]
                          ELSE folders[i]]
        /\ inflight' = (inflight \ {r}) \cup {[r EXCEPT !.stage = "subfolders"]}
        /\ response' = Response(r.user, 0)
    /\ UNCHANGED <<pc, bookmarks, tagVars, procVars, aiVars, promptVars>>

\* folder.deleteOne() and the response 'Folder removed'
DeleteOne ==
    /\ pc = "listening"
    /\ \E r \in inflight :
        /\ r.stage = "subfolders"
        /\ folders' = [folders EXCEPT ![r.id].exists = FALSE]
        /\ inflight' = inflight \ {r}
        /\ response' = Response(r.user, 200)
    /\ UNCHANGED <<pc, bookmarks, tagVars, procVars, aiVars, promptVars>>

\* Folder.find({user: u})
FoldersOf(fs, u) == {i \in 1..Len(fs) : fs[i].exists /\ fs[i].user = u}

\* buildTree(folder) of GET /folders, as the ids of the tree's nodes in the
\* order of the response: the folder, then the trees of the user's folders
\* whose parent it is.  SubfoldersFrom(fs, u, node, i) is that list of trees
\* from folder i on; node 0 gives the trees of the root folders.
RECURSIVE BuildTree(_, _, _), SubfoldersFrom(_, _, _, _)
BuildTree(fs, u, node) == <<node>> \o SubfoldersFrom(fs, u, node, 1)
SubfoldersFrom(fs, u, node, i) ==
    IF i > Len(fs) THEN <<>>
    ELSE (IF i \in FoldersOf(fs, u) /\ fs[i].parent = node
          THEN BuildTree(fs, u, i) ELSE <<>>)
         \o SubfoldersFrom(fs, u, node, i + 1)

\* rootFolders.map(buildTree)
FolderTree(fs, u) == SubfoldersFrom(fs, u, 0, 1)

\* GET /folders by user u
GetFolders ==
    /\ pc = "listening"
    /\ \E u \in StoreUsers :
        response' = [user |-> u, status |-> 200, folderTree |-> FolderTree(folders, u)]
    /\ UNCHANGED <<pc, bookmarks, folders, inflight, tagVars, procVars, aiVars, promptVars>>

NextFolders ==
    \/ GetFolders
    \/ CreateFolder
    \/ UpdateFolder
    \/ MoveBookmark
    \/ BulkMove
    \/ DeleteFind
    \/ DeleteMoveBookmarks
    \/ DeleteMoveSubfolders
    \/ DeleteOne

SpecFolders == InitFolders /\ [][NextFolders]_vars

----------------------------------------------------------------------------
(* C1: an empty vocabulary. *)

\* C1 as claimed: findSimilarTag over an empty existingTags returns null and
\* does not raise, and processTags(newTags, []) with non-empty newTags returns
\* normally.
C1_EmptyVocabularyIsNoMatch ==
    /\ (pc = "matched" /\ existingTags = <<>>) => (~found.threw /\ ~found.hit)
    /\ (pc = "processed" /\ existingTags = <<>> /\ newTags # <<>>) => ~processed.threw

----------------------------------------------------------------------------
(* C2: the de-duplication guarantee. *)

Range(seq) == {seq[i] : i \in 1..Len(seq)}

\* the existing tags the claim counts as a match of the normalized new tag n
MatchesOf(n, existing) ==
    {e \in Range(existing) :
        normalizeTag(e) = n \/ AtLeastThreshold(compareTwoStrings(n, e))}

\* C2 as claimed: a new tag with a match in existingTags puts a matching
\* existing tag in the result and not its own normalized form as a further
\* tag.  (A new tag equal to an existing tag matches it, so this covers the
\* claim's "in particular"; where several existing tags match, any of them
\* is accepted.)
C2_Deduplication ==
    (pc = "processed" /\ ~processed.threw) =>
        \A i \in 1..Len(newTags) :
            LET n == normalizeTag(newTags[i])
            IN  (n # <<>> /\ MatchesOf(n, existingTags) # {}) =>
                    /\ MatchesOf(n, existingTags) \cap Range(processed.tags) # {}
                    /\ n \in Range(processed.tags) => n \in Range(existingTags)

----------------------------------------------------------------------------
(* C3: processTags on its own output. *)

\* C3 as claimed: for every result T of processTags, processTags(T, T) returns
\* exactly the set T.
C3_ProcessTagsIdempotent ==
    pc = "reprocessed" =>
        /\ ~reprocessed.threw
        /\ Range(reprocessed.tags) = Range(processed.tags)

----------------------------------------------------------------------------
(* C4: normalizeTag is idempotent. *)

\* C4 as claimed: for every raw tag t, normalizeTag(normalizeTag(t)) equals
\* normalizeTag(t).
C4_NormalizeIdempotent ==
    pc = "renormalized" => renormalized = normalized

----------------------------------------------------------------------------
(* C5: the plural rule. *)

IES == <<"i", "e", "s">>
ES == <<"e", "s">>
S == <<"s">>

\* the suffix rule taken alone: the first of "ies" -> "y", "es" -> "", "s" -> ""
\* whose suffix ends t
FirstSuffixRule(t) ==
    IF EndsWith(t, IES) THEN SliceOff(t, 3) \o <<"y">>
    ELSE IF EndsWith(t, ES) THEN SliceOff(t, 2)
    ELSE IF EndsWith(t, S) THEN SliceOff(t, 1)
    ELSE t

\* the same, where a suffix whose removal leaves fewer than 2 characters gives
\* way to the next one
FirstFittingRule(t) ==
    IF EndsWith(t, IES) /\ Len(t) - 3 + 1 >= 2 THEN SliceOff(t, 3) \o <<"y">>
    ELSE IF EndsWith(t, ES) /\ Len(t) - 2 >= 2 THEN SliceOff(t, 2)
    ELSE IF EndsWith(t, S) /\ Len(t) - 1 >= 2 THEN SliceOff(t, 1)
    ELSE t

\* the outcomes the claim allows, under either reading of "applied only when
\* the result keeps at least 2 characters"
ClaimedSingular(t) ==
    { IF Len(FirstSuffixRule(t)) >= 2 THEN FirstSuffixRule(t) ELSE t,
      FirstFittingRule(t) }

PrefixFree(t) == \A i \in 1..Len(PREFIXES) : ~StartsWith(t, PREFIXES[i].prefix)

\* C5 as claimed: for every non-preserved, prefix-free, lowercase (and trimmed)
\* tag, normalizeTag returns the tag with exactly one plural suffix collapsed by
\* the rule ies -> y, else es removed, else s removed, if at least 2 characters
\* remain, and the tag unchanged otherwise.
C5_PluralRule ==
    (/\ pc = "normalized"
     /\ tag = Trim(ToLowerCase(tag))
     /\ tag \notin PRESERVED_TERMS
     /\ PrefixFree(tag))
    => normalized \in ClaimedSingular(tag)

----------------------------------------------------------------------------
(* C6: the dispatcher never raises and always returns a well-formed object. *)

\* C6: whatever the user configuration and whatever the provider does,
\* ai.analyzeContent does not raise; what it returns has a non-empty summary,
\* a list of tags and a category among Article, Video, Research.
C6_AlwaysWellFormed ==
    result.returned =>
        /\ ~result.raised
        /\ result.summary # <<>>
        /\ result.tags \in Seq(Seq(STRING))
        /\ result.category \in CATEGORIES

\* every sub-operation failed at the provider, and the call returned
C6_Witness ==
    /\ result.returned
    /\ summaryTask.failed /\ tagsTask.failed /\ categoryTask.failed

----------------------------------------------------------------------------
(* C7: configuration errors fail fast. *)

\* the configurations the claim names: no or an unknown provider, or no
\* credential for the selected provider
ConfigInvalid(u) ==
    \/ u.aiProvider \notin {"openai", "claude"}
    \/ u.aiProvider = "openai" /\ ~u.openAiKey
    \/ u.aiProvider = "claude" /\ ~u.claudeKey

\* C7: under an invalid configuration no provider request is ever issued, and
\* the call returns {summary: 'AI analysis failed: <message>. Please try again
\* later.', tags: [], category: 'Article'}.
C7_ConfigFailFast ==
    ConfigInvalid(user) =>
        /\ requests = NoRequests
        /\ result.returned =>
              /\ ~result.raised
              /\ Len(result.summary) = 3
              /\ result.summary[1] = "AI analysis failed: "
              /\ result.summary[2] # ""
              /\ result.summary[3] = ". Please try again later."
              /\ result.tags = <<>>
              /\ result.category = ARTICLE

\* the selected provider has no key while the other one has, and the call
\* returned
C7_Witness ==
    /\ user.aiProvider = "openai" /\ ~user.openAiKey /\ user.claudeKey
    /\ result.returned

----------------------------------------------------------------------------
(* C8: failure isolation between the three sub-operations. *)

\* C8: when exactly one sub-operation fails, its field of the result is its
\* fallback and the other two fields are the values their own sub-operations
\* produced.
C8_FailureIsolation ==
    (result.returned /\ pc = "returned" /\ variant # "") =>
        /\ (summaryTask.failed /\ ~tagsTask.failed /\ ~categoryTask.failed) =>
              /\ result.summary = SUMMARY_FAILED
              /\ result.tags = tagsTask.value
              /\ result.category = categoryTask.value
        /\ (~summaryTask.failed /\ tagsTask.failed /\ ~categoryTask.failed) =>
              /\ result.summary = summaryTask.value
              /\ result.tags = <<>>
              /\ result.category = categoryTask.value
        /\ (~summaryTask.failed /\ ~tagsTask.failed /\ categoryTask.failed) =>
              /\ result.summary = summaryTask.value
              /\ result.tags = tagsTask.value
              /\ result.category = ARTICLE

\* tag generation alone failed; the summary and the category are the provider's
C8_Witness ==
    /\ result.returned
    /\ tagsTask.failed /\ ~summaryTask.failed /\ ~categoryTask.failed
    /\ result.tags = <<>>
    /\ result.summary = <<"Summary.">>
    /\ result.category = VIDEO
    /\ requests.classify = 1

----------------------------------------------------------------------------
(* C9: the all-complete barrier. *)

\* C9: analyzeContent has returned only if none of its three sub-operations is
\* still pending: each has produced a value or its fallback.
C9_AllCompleteBarrier ==
    (result.returned /\ variant # "") =>
        /\ summaryTask.status = "fulfilled"
        /\ tagsTask.status = "fulfilled"
        /\ categoryTask.status = "fulfilled"

\* the category completed early (from the URL), tag generation failed, and the
\* call returned
C9_Witness ==
    /\ result.returned
    /\ requests.classify = 0 /\ requests.tags = 1
    /\ categoryTask.status = "fulfilled"
    /\ tagsTask.failed
    /\ ~summaryTask.failed

----------------------------------------------------------------------------
(* C10: youtube.com URLs are classified without the provider. *)

\* C10: for a URL containing "youtube.com" in any letter case, determineCategory
\* of either provider service yields 'Video' and sends no classification
\* request.
C10_YoutubeShortCircuit ==
    (variant # "" /\ categoryTask.status # "idle"
        /\ \E i \in 1..Len(url) : url[i] \in {"youtube.com", "YouTube.com"}) =>
        /\ categoryTask.status = "fulfilled"
        /\ categoryTask.value = VIDEO
        /\ requests.classify = 0
        /\ result.returned => result.category = VIDEO

\* a URL spelled "YouTube.com", analysed by the Claude service
C10_Witness ==
    /\ variant = "claude"
    /\ url = <<"YouTube.com">>
    /\ result.returned
    /\ result.category = VIDEO
    /\ requests.classify = 0

----------------------------------------------------------------------------
(* C11: the exact step of findSimilarTag. *)

\* C11: whenever some existing tag normalizes to the candidate's normalized
\* form, findSimilarTag returns an element of existingTags, as it is spelled
\* there, whose normalized form equals the candidate's, whatever the fuzzy
\* scores of the other existing tags.
C11_ExactStep ==
    (pc = "matched"
        /\ \E i \in 1..Len(existingTags) : normalizeTag(existingTags[i]) = normalizeTag(tag)) =>
        /\ ~found.threw
        /\ found.hit
        /\ found.tag \in Range(existingTags)
        /\ normalizeTag(found.tag) = normalizeTag(tag)

\* the exact match is returned although it is spelled differently from the
\* candidate and another existing tag, listed first, is the best fuzzy match
C11_Witness ==
    /\ pc = "matched"
    /\ Len(existingTags) = 2
    /\ found.hit
    /\ found.tag = existingTags[2]
    /\ found.tag # tag
    /\ found.tag # normalizeTag(tag)
    /\ normalizeTag(found.tag) = normalizeTag(tag)
    /\ findBestMatch(normalizeTag(tag), existingTags).target = existingTags[1]

----------------------------------------------------------------------------
(* C12: the blocklist on stored tags. *)

----------------------------------------------------------------------------
(* C13: near-duplicates among the new tags. *)

\* the claim's "score >= 0.85 against each other", for normalized forms
NearDuplicates(n1, n2) == AtLeastThreshold(compareTwoStrings(n1, n2))

\* C13 as claimed: with an empty existing vocabulary, processTags returns, and
\* two new tags with non-empty normalized forms come out as one result tag
\* exactly when their normalized forms score >= 0.85 against each other, and as
\* two distinct tags otherwise.
C13_NewTagsCollapse ==
    (/\ pc = "processed"
     /\ existingTags = <<>>
     /\ Len(newTags) = 2
     /\ normalizeTag(newTags[1]) # <<>>
     /\ normalizeTag(newTags[2]) # <<>>)
    => /\ ~processed.threw
       /\ Len(processed.tags) =
            IF NearDuplicates(normalizeTag(newTags[1]), normalizeTag(newTags[2]))
            THEN 1 ELSE 2

----------------------------------------------------------------------------
(* C14: preserved terms. *)

\* C14: for every raw tag whose lower-cased, trimmed form is a preserved term,
\* normalizeTag returns that lower-cased, trimmed form.
C14_PreservedTerms ==
    (pc = "normalized" /\ Trim(ToLowerCase(tag)) \in PRESERVED_TERMS) =>
        normalized = Trim(ToLowerCase(tag))

\* "Sass" with a leading space: the plural rule would have cut it to "sas"
C14_Witness ==
    /\ pc = "normalized"
    /\ tag = <<" ", "S", "a", "s", "s">>
    /\ normalized = <<"s", "a", "s", "s">>

----------------------------------------------------------------------------
(* C15: the output of normalizeTag is lowercase and trimmed. *)

\* C15 as claimed: for every raw tag, normalizeTag's output contains no
\* uppercase letter and has no leading or trailing whitespace, also after a
\* prefix has been removed.
C15_LowercaseTrimmed ==
    pc = "normalized" =>
        /\ normalized = ToLowerCase(normalized)
        /\ normalized = Trim(normalized)

----------------------------------------------------------------------------
(* C16: the output of normalizeTag has no common English prefix. *)

\* C16 as claimed: for every raw tag whose lower-cased, trimmed form is not a
\* preserved term, normalizeTag's output does not begin with "the ", "a " or
\* "an ".
C16_PrefixesStripped ==
    (pc = "normalized" /\ Trim(ToLowerCase(tag)) \notin PRESERVED_TERMS) =>
        PrefixFree(normalized)

----------------------------------------------------------------------------
(* C17: the two provider services implement one policy. *)

OtherVariant(service) == IF service = "openai" THEN "claude" ELSE "openai"

\* C17 as claimed: on the URL and the provider replies of a run, the other
\* provider service would skip the classifier in exactly the same cases, with
\* the same category, and would make the same tags of the tag reply.
C17_SameProviderPolicy ==
    (variant # "" /\ requests.summary = 1) =>
        /\ IsVideoUrl(OtherVariant(variant), url) = IsVideoUrl(variant, url)
        /\ IsResearchUrl(OtherVariant(variant), url) = IsResearchUrl(variant, url)
        /\ tagsReply # NoReply =>
              Catch(generateTags(OtherVariant(variant), tagsReply), <<>>) = tagsTask

----------------------------------------------------------------------------
(* C18: the result is composed by field, not by completion order. *)

\* C18: in whatever order the three sub-operations completed, the returned
\* object's summary is the summary sub-operation's outcome, its tags the tag
\* sub-operation's outcome (what generateTags makes of the tag reply) and its
\* category the category sub-operation's outcome.
C18_CompositionByField ==
    (pc = "returned" /\ Len(completed) = 3) =>
        /\ result.summary = summaryTask.value
        /\ result.tags = tagsTask.value
        /\ result.tags = Catch(generateTags(variant, tagsReply), <<>>).value
        /\ result.category = categoryTask.value

\* the sub-operations completed in the reverse of the order they were started
\* in, each with a value of the provider's
C18_Witness ==
    /\ pc = "returned"
    /\ completed = <<"category", "tags", "summary">>
    /\ requests.classify = 1
    /\ result.summary = <<"Summary.">>
    /\ result.tags = << <<"a", "i">> >>
    /\ result.category = RESEARCH

----------------------------------------------------------------------------
(* C19: the fuzzy step of findSimilarTag. *)

\* the rating of existing tag e against the normalized candidate
RatingOf(e) == compareTwoStrings(normalizeTag(tag), e)

\* C19: findSimilarTag never returns a tag that is not in existingTags; when
\* existingTags is non-empty and no existing tag normalizes to the candidate's
\* normalized form, it returns an existing tag whose rating against the
\* normalized candidate is the highest of all existing tags if that rating is
\* at least the threshold, and null otherwise.
C19_FuzzyStep ==
    pc = "matched" =>
        /\ found.hit => found.tag \in Range(existingTags)
        /\ (/\ existingTags # <<>>
            /\ \A e \in Range(existingTags) : normalizeTag(e) # normalizeTag(tag)) =>
              /\ ~found.threw
              /\ found.hit <=> \E e \in Range(existingTags) : AtLeastThreshold(RatingOf(e))
              /\ found.hit =>
                    /\ AtLeastThreshold(RatingOf(found.tag))
                    /\ \A e \in Range(existingTags) : ~RatingGreater(RatingOf(e), RatingOf(found.tag))

\* the best-rated existing tag, listed second, is returned although it does
\* not normalize to the candidate's normalized form; the first one rates lower
C19_Witness ==
    /\ pc = "matched"
    /\ Len(existingTags) = 2
    /\ \A e \in Range(existingTags) : normalizeTag(e) # normalizeTag(tag)
    /\ found.hit
    /\ found.tag = existingTags[2]
    /\ RatingOf(existingTags[1]).num > 0
    /\ RatingGreater(RatingOf(existingTags[2]), RatingOf(existingTags[1]))

----------------------------------------------------------------------------
(* C20: the tag generation policy. *)

\* the lower-cased, trimmed form of a reply element
Cleaned(t) == Trim(ToLowerCase(t))

\* what the claim requires of a returned tag
Acceptable(service, t) ==
    /\ t # <<>>
    /\ Len(t) <= 50
    /\ t \notin GenericTerms(service)

\* C20: generateTags of either provider service returns [] when the reply is
\* not a JSON list of strings (or there is no usable reply); otherwise every
\* returned tag is the lower-cased, trimmed form of a reply element, non-empty,
\* of at most 50 characters and not on that service's generic-term blocklist,
\* and the returned tags are all the reply elements of that kind, in order.
C20_TagPolicy ==
    (variant # "" /\ tagsReply # NoReply) =>
        LET returned == tagsTask.value
            cleanedReply == [i \in 1..Len(tagsReply.tags) |-> Cleaned(tagsReply.tags[i])]
        IN  IF tagsReply.kind # "text" \/ tagsReply.json # "list"
            THEN returned = <<>>
            ELSE /\ \A j \in 1..Len(returned) :
                        /\ Acceptable(variant, returned[j])
                        /\ \E i \in 1..Len(cleanedReply) : returned[j] = cleanedReply[i]
                 /\ returned = SelectSeq(cleanedReply, LAMBDA t : Acceptable(variant, t))

\* of the reply [" AI ", <a tag of 51 characters>] the first element is
\* returned, cleaned, and the second is dropped
C20_Witness ==
    /\ variant = "claude"
    /\ tagsReply.json = "list"
    /\ tagsReply.tags = << <<" ", "A", "I", " ">>, LongTag >>
    /\ tagsTask.value = << <<"a", "i">> >>

----------------------------------------------------------------------------
(* C21: the provider sees a bounded excerpt. *)

\* C21 as claimed: what generateSummary of either provider service submits is a
\* prefix of the content of at most a fixed length (here the longest excerpt
\* either service takes anywhere, 2000 characters, in blocks of 500).
C21_BoundedSummaryInput ==
    pc = "summary" =>
        /\ submitted.sent
        /\ Len(submitted.text) <= Len(content)
        /\ submitted.text = SubSeq(content, 1, Len(submitted.text))
        /\ Len(submitted.text) * 500 <= 2000

----------------------------------------------------------------------------
(* C22: the category is one of the three literals. *)

\* C22: determineCategory always returns 'Article', 'Video' or 'Research';
\* when the URL matches no video or research pattern, it returns the provider's
\* trimmed answer if that is exactly one of these literals, and 'Article' for
\* any other answer and when the request fails.
C22_CategoryLiteral ==
    pc = "category" =>
        /\ categoryTask.value \in {<<"Article">>, <<"Video">>, <<"Research">>}
        /\ (~IsVideoUrl(variant, url) /\ ~IsResearchUrl(variant, url)) =>
              categoryTask.value =
                  IF /\ answer.kind = "text"
                     /\ Trim(answer.text) \in {<<"Article">>, <<"Video">>, <<"Research">>}
                  THEN Trim(answer.text)
                  ELSE <<"Article">>

\* the provider answered "video", in lower case, and the category is 'Article'
C22_Witness ==
    /\ pc = "category"
    /\ submitted.sent
    /\ answer.kind = "text"
    /\ answer.text = <<"video">>
    /\ categoryTask.value = <<"Article">>

----------------------------------------------------------------------------
(* C23: the shape of stored tags. *)

----------------------------------------------------------------------------
(* C24: no tag twice on a bookmark. *)

----------------------------------------------------------------------------
(* C25: processTags emits no empty tag. *)

\* a tag that is empty or made of whitespace
IsBlank(t) == Trim(t) = <<>>

\* C25: for every newTags and every non-empty existingTags, the result of
\* processTags contains no empty string, and it is the result processTags
\* gives for newTags without its empty and whitespace-only tags.
C25_NoEmptyTag ==
    (pc = "processed" /\ existingTags # <<>>) =>
        /\ ~processed.threw
        /\ \A i \in 1..Len(processed.tags) : processed.tags[i] # <<>>
        /\ processed = processTags(SelectSeq(newTags, LAMBDA t : ~IsBlank(t)), existingTags)

\* a whitespace-only tag, then a tag that is kept, over a vocabulary that
\* holds the empty tag
C25_Witness ==
    /\ pc = "processed"
    /\ \E j \in 1..Len(existingTags) : existingTags[j] = <<>>
    /\ Len(newTags) = 2 /\ newTags[1] = <<" ", " ">>
    /\ Len(processed.tags) = 1

----------------------------------------------------------------------------
(* C26: one bookmark per user and URL. *)

\* C26 as claimed: after any sequence of POST /bookmarks requests, concurrent
\* ones by the same user for the same cleaned URL included, no two bookmarks
\* have the same user and the same url.
C26_UrlUniquePerUser ==
    \A i, j \in 1..Len(bookmarks) :
        (bookmarks[i].user = bookmarks[j].user /\ bookmarks[i].url = bookmarks[j].url)
            => i = j

----------------------------------------------------------------------------
(* C30: a failed analysis is not persisted. *)

\* the summary the catch block of ai.analyzeContent returns
IsAnalysisFailure(summary) ==
    Len(summary) = 3 /\ summary[1] = "AI analysis failed: "

\* C30 as claimed: when the analysis fails, as when the selected provider has
\* no key and only the other provider's key is stored, no bookmark is created:
\* no bookmark holds the failure message as its summary.
C30_NoFailedAnalysisStored ==
    \A i \in 1..Len(bookmarks) : ~IsAnalysisFailure(bookmarks[i].aiSummary)

----------------------------------------------------------------------------
(* C27: a request changes only the documents of its own user. *)

\* this step leaves every bookmark and every folder of the other users as it is
OthersUnchanged(u) ==
    /\ \A i \in 1..Len(bookmarks) : bookmarks[i].user # u => bookmarks'[i] = bookmarks[i]
    /\ \A i \in 1..Len(folders) : folders[i].user # u => folders'[i] = folders[i]

\* C27 as claimed: every step of a request made as user A leaves every
\* bookmark and every folder of any other user unchanged, also when the other
\* user has filed a bookmark, or a folder, under a folder of A that A deletes.
C27_OwnershipIsolation ==
    [][\A u \in StoreUsers : response'.user = u => OthersUnchanged(u)]_vars

----------------------------------------------------------------------------
(* C28: nothing refers to a folder once its deletion has succeeded. *)

\* some bookmark is filed in folder id, or some folder has it as parent
Referenced(bs, fs, id) ==
    \/ \E i \in 1..Len(bs) : bs[i].folder = id
    \/ \E i \in 1..Len(fs) : fs[i].exists /\ fs[i].parent = id

\* C28 as claimed: when DELETE /folders/:id succeeds, no bookmark has the
\* deleted id as folder and no folder has it as parent, whatever moves were
\* served between the steps of the delete.
C28_NoDanglingReference ==
    [][\A id \in 1..Len(folders) :
            (folders[id].exists /\ ~folders'[id].exists)
                => ~Referenced(bookmarks', folders', id)]_vars

----------------------------------------------------------------------------
(* C29: the folders form a forest, shown whole by GET /folders. *)

\* the folder reached from id by k steps to the parent, 0 past a root or a
\* folder that does not exist
RECURSIVE Up(_, _, _)
Up(fs, id, k) ==
    IF k = 0 THEN id
    ELSE LET p == Up(fs, id, k - 1)
         IN  IF p \in 1..Len(fs) /\ fs[p].exists THEN fs[p].parent ELSE 0

\* C29 as claimed: after any folder create, update or delete no folder is its
\* own ancestor, and every folder appears exactly once in the tree GET
\* /folders returns to its user.
C29_FolderForest ==
    \A id \in 1..Len(folders) :
        folders[id].exists =>
            /\ \A k \in 1..Len(folders) : Up(folders, id, k) # id
            /\ Occurrences(FolderTree(folders, folders[id].user), id) = 1

====
